---- MODULE Spec2Model ----
(***************************************************************************)
(* CreatorLab T-shirt configurator.                                        *)
(*                                                                         *)
(* Spec        the App component (src/App.tsx) with the controls of        *)
(*             src/components/DesignControls.tsx: the DesignState record,  *)
(*             the error field, the busy flags and the asynchronous        *)
(*             requests in flight, each with the closure (the render's     *)
(*             `error` and `designState`) its handler captured.            *)
(* SpecViewer  the ThreeViewer component (src/components/ThreeViewer.tsx): *)
(*             the garment group, the print-decal mesh and its material,   *)
(*             the texture loads in flight.                                *)
(* SpecSettling the requests of App under prompt edits and uploads, each    *)
(*             request awaited being eventually answered.                  *)
(* SpecControls the option, prompt and quantity controls of DesignControls, *)
(*             with the description request as the source of errors.       *)
(* SpecArtwork the artwork of App: the suggestions of the description, the *)
(*             picks among them, uploads, removals and image requests.     *)
(* SpecGallery ThreeViewer under the picks of suggestions and the uploads. *)
(* SpecSearch  the usePixabaySearch hook (src/services/pixabayService.ts): *)
(*             the debounce timers, the searches in flight, the images.    *)
(* SpecServices the service functions of src/services, called with every   *)
(*             credential and every answer of the network.                 *)
(* SpecHandler the serverless function of src/api/generate-image.ts,       *)
(*             called with every request and every answer of the upstream. *)
(*                                                                         *)
(* One step is one event-loop task: a DOM event handler or the             *)
(* continuation of an awaited promise, together with the React commit and  *)
(* the effects that commit schedules.                                      *)
(***************************************************************************)
EXTENDS Integers, Sequences, FiniteSets, Bags, TLC

\* ------------------------------------------------------------------ bounds
MaxQuantity == 4
MaxReaders == 1
MaxOptionChanges == 1
MaxLoads == 2
MaxSearches == 2

\* --------------------------------------------------------------- constants
Null == "null"

\* Theme, ShirtSize: two members of each enumeration stand for all of them.
Themes == {"Cyberpunk", "Anime"}
ShirtSizes == {"L", "M"}
SleeveLengths == {"Sleeveless", "Short Sleeve", "Long Sleeve"}
FabricTypes == {"Premium Cotton", "Performance Poly", "Silk Blend"}
DEFAULT_SHIRT_COLOR == "#1e293b"
SHIRT_COLORS == {"#1e293b", "#ffffff"}

\* A prompt is a sequence of characters; " " is white space. The texts the
\* user types and the text model describes: empty, blank, plain.
Prompts == {<<>>, <<" ">>, <<"a">>}

\* Data URLs: what a FileReader yields (for a file chosen, for the blob of a
\* suggestion fetched) and what generateTShirtDesign returns.
UploadedImages == {"data:upload"}
PickedImages == {"data:pixabay"}
GeneratedImages == {"data:image/png;base64"}

\* File content types, as <<type, subtype>>, and the files of a change
\* event: one of a type, or none (event.target.files is empty).
FileTypes == {<<"image", "png">>, <<"text", "plain">>}
NoFile == <<>>
Files == FileTypes \cup {NoFile}

\* What the text model answers to an enhancement: a text (possibly padded
\* with white space), or the call raises.
NetError == <<"NetError">>
AIResponses == Prompts \cup {<<" ", "a">>, NetError}

DescriptionErrorMessage == "Failed to generate description via AI."
EnhanceErrorMessage == "Failed to enhance prompt."
GenerateFallbackMessage == "Failed to generate design. Please try again."
OpenAIKeyMissingMessage ==
    "OpenAI API Key is missing. Please set the OPENAI_API_KEY environment variable."
\* err.message of a failed image request with the key set ("" : no message).
OpenAIFailureMessages == {"OpenAI API Error: 500", ""}

\* The deployments: each API key (Gemini, OpenAI, Pixabay) is configured
\* or not, independently of the others.
KeyConfigurations == BOOLEAN \X BOOLEAN \X BOOLEAN

\* pixabayService.ts:54  debounceMs, and the step of the clock of the model.
DebounceMs == 500
TickMs == 250
\* pixabayService.ts:59  searchQuery.length < 3
MinQueryLength == 3
\* DesignControls.tsx:158  state.prompt.trim().length >= 3
MinSuggestLength == 3

\* The descriptions typed while the suggestions are watched.
Queries == {<<>>, <<" ", " ", " ">>, <<"a", "b">>, <<"c", "a", "t">>, <<"d", "o", "g">>}

\* The descriptions typed while artwork is picked, uploaded and generated.
ArtworkQueries == {<<>>, <<"c", "a", "t">>}

VARIABLES
    designState,              \* App.tsx:9   useState<DesignState>
    error,                    \* App.tsx:22  useState<string | null>
    isGeneratingDescription,  \* App.tsx:23
    isEnhancing,              \* App.tsx:24
    descReqs,                 \* generateCreativePrompt calls awaited (closures)
    enhReqs,                  \* enhancePrompt calls awaited (closures)
    genReqs,                  \* generateTShirtDesign calls awaited (closures)
    readers,                  \* FileReader reads pending (result, closure)
    fetches,                  \* DesignControls.tsx:72  fetches of a suggestion pending (closures)
    geminiKey,                \* geminiService.ts:5  GEMINI_API_KEY non-empty
    openaiKey,                \* geminiService.ts:6  OPENAI_API_KEY non-empty
    shirtGroup,               \* ThreeViewer.tsx:23  the group's children
    printMeshRef,             \* ThreeViewer.tsx:24
    materials,                \* the materials of the meshes, by identity
    loads,                    \* TextureLoader loads pending: a bag of (url, material)
    lastOp,                   \* history: the kind of handler that ran last
    pixabayKey,               \* pixabayService.ts:3  PIXABAY_API_KEY non-empty
    timers,                   \* setTimeout timers pending (id, query, remaining ms)
    timer,                    \* pixabayService.ts:71  id of the last effect run's timer (0: none)
    sinceChange,              \* history: ms since the query last changed (capped)
    searches,                 \* searchPixabayImages calls awaiting their fetch
    images,                   \* pixabayService.ts:55
    isLoading,                \* pixabayService.ts:56
    svc                       \* the last call of a service function or of the
                              \* HTTP handler, and its outcome

appVars == <<designState, error, isGeneratingDescription, isEnhancing,
             descReqs, enhReqs, genReqs, readers, fetches,
             geminiKey, openaiKey, pixabayKey>>
viewerVars == <<shirtGroup, printMeshRef, materials, loads>>
searchVars == <<timers, timer, sinceChange, searches, images, isLoading>>
vars == <<appVars, viewerVars, lastOp, searchVars, svc>>

\* JavaScript values of the search results.
Array(items) == [items |-> items, type |-> "array"]
Undefined == [type |-> "undefined"]

\* ------------------------------------------------------------ pure helpers
RECURSIVE TrimStart(_)
TrimStart(s) ==
    IF s = <<>> THEN s
    ELSE IF Head(s) = " " THEN TrimStart(Tail(s)) ELSE s

RECURSIVE TrimEnd(_)
TrimEnd(s) ==
    IF s = <<>> THEN s
    ELSE IF s[Len(s)] = " " THEN TrimEnd(SubSeq(s, 1, Len(s) - 1)) ELSE s

\* String.prototype.trim
Trim(s) == TrimEnd(TrimStart(s))

Max(a, b) == IF a >= b THEN a ELSE b

RemoveAt(q, i) == SubSeq(q, 1, i - 1) \o SubSeq(q, i + 1, Len(q))

\* App.tsx:9-20
InitialDesignState ==
    [theme |-> "Cyberpunk",
     prompt |-> <<>>,
     generatedImageBase64 |-> Null,
     uploadedImage |-> FALSE,
     isGenerating |-> FALSE,
     shirtColor |-> DEFAULT_SHIRT_COLOR,
     size |-> "L",
     sleeveLength |-> "Short Sleeve",
     fabric |-> "Premium Cotton",
     quantity |-> 1]

MergeOntoInitial(prev, updates) ==
    [k \in DOMAIN prev |->
        IF k \in DOMAIN updates THEN updates[k] ELSE InitialDesignState[k]]

\* { ...prev, ...updates }
Merge(prev, updates) ==
    [k \in DOMAIN prev |-> IF k \in DOMAIN updates THEN updates[k] ELSE prev[k]]

\* ------------------------------------------------------------- React state
\* The pair a handler's set-calls act on; a handler's calls are batched into
\* one commit, the last setError of the batch deciding the error field.
Cur == [designState |-> designState, error |-> error]

\* What the handlers created by the current render have captured, as far as
\* they read it after their await: whether `error` is set (App.tsx:30) and,
\* for handleEnhancePrompt, the prompt it passed on (App.tsx:52).
Closure == [errorShown |-> error # Null]
EnhanceClosure == [errorShown |-> error # Null, prompt |-> designState.prompt]

setError(s, value) == [s EXCEPT !.error = value]

updateStateKeepUpload(s, cl, updates) ==
    IF /\ s.designState.uploadedImage
       /\ "uploadedImage" \in DOMAIN updates
       /\ ~updates.uploadedImage
       /\ updates.generatedImageBase64 # Null
    THEN [designState |-> Merge(s.designState, [isGenerating |-> FALSE]),
          error |-> IF cl.errorShown THEN Null ELSE s.error]
    ELSE [designState |-> Merge(s.designState, updates),
          error |-> IF cl.errorShown THEN Null ELSE s.error]

updateStateKeepError(s, cl, updates) ==
    [s EXCEPT !.designState = Merge(s.designState, updates)]

\* App.tsx:28  `error` is the value captured by the render that created the
\* function, setDesignState merges into the state of the moment.
updateState(s, cl, updates) ==
    [designState |-> Merge(s.designState, updates),
     error |-> IF cl.errorShown THEN Null ELSE s.error]

\* DesignControls.tsx:158, 165  the render reads pixabaySuggestions.length
\* when the trimmed prompt has three characters or more: it throws a
\* TypeError when the suggestions are not a list.
RenderThrows(prompt, imgs) ==
    Len(Trim(prompt)) >= MinSuggestLength /\ imgs.type # "array"

\* No error boundary surrounds App: a render that threw unmounted the tree.
\* No control exists from then on and the cleanups of the effects have run;
\* the continuations still pending (requests, reads, fetches, searches,
\* texture loads) run when their awaits end.
Crashed == RenderThrows(designState.prompt, images)

\* A set-call of a continuation: it changes nothing once the tree is
\* unmounted.
Set(current, value) == IF Crashed THEN current ELSE value

\* The commit of the batched set-calls of an event handler: the controls
\* exist while the tree is mounted.
Commit(s) ==
    /\ ~Crashed
    /\ designState' = s.designState
    /\ error' = s.error

\* The commit of the batched set-calls of a continuation, after its await.
Resumed(s) ==
    /\ designState' = Set(designState, s.designState)
    /\ error' = Set(error, s.error)

Init ==
    /\ designState = InitialDesignState
    /\ error = Null
    /\ isGeneratingDescription = FALSE
    /\ isEnhancing = FALSE
    /\ descReqs = <<>>
    /\ enhReqs = <<>>
    /\ genReqs = <<>>
    /\ readers = <<>>
    /\ fetches = <<>>
    /\ \E k \in KeyConfigurations :
           geminiKey = k[1] /\ openaiKey = k[2] /\ pixabayKey = k[3]
    /\ shirtGroup = Null
    /\ printMeshRef = Null
    /\ materials = [m \in {} |-> Null]
    /\ loads = EmptyBag
    /\ lastOp = [kind |-> "init", hadError |-> FALSE]
    /\ timers = {}
    /\ timer = 0
    /\ sinceChange = 0
    /\ searches = <<>>
    /\ images = Array(<<>>)
    /\ isLoading = FALSE
    /\ svc = [fn |-> "none"]

flags == <<isGeneratingDescription, isEnhancing>>
reqs == <<descReqs, enhReqs, genReqs, readers>>
keys == <<geminiKey, openaiKey, pixabayKey>>

\* ------------------------------------------------------- controls (edits)
\* DesignControls.tsx:117
SelectTheme(t) ==
    /\ Commit(updateState(Cur, Closure, [theme |-> t]))
    /\ UNCHANGED <<flags, reqs, keys, fetches>>

\* DesignControls.tsx:150
TypePrompt(p) ==
    /\ Commit(updateState(Cur, Closure, [prompt |-> p]))
    /\ UNCHANGED <<flags, reqs, keys, fetches>>

\* DesignControls.tsx:254
SelectSleeve(l) ==
    /\ Commit(updateState(Cur, Closure, [sleeveLength |-> l]))
    /\ UNCHANGED <<flags, reqs, keys, fetches>>

\* DesignControls.tsx:269
SelectFabric(f) ==
    /\ Commit(updateState(Cur, Closure, [fabric |-> f]))
    /\ UNCHANGED <<flags, reqs, keys, fetches>>

\* DesignControls.tsx:287, 298
SelectColor(c) ==
    /\ Commit(updateState(Cur, Closure, [shirtColor |-> c]))
    /\ UNCHANGED <<flags, reqs, keys, fetches>>

\* DesignControls.tsx:314
SelectSize(z) ==
    /\ Commit(updateState(Cur, Closure, [size |-> z]))
    /\ UNCHANGED <<flags, reqs, keys, fetches>>

DecrementedNoClamp(q) == q - 1

DecrementedToFloor(q) == 1

\* DesignControls.tsx:333
Decremented(q) == Max(1, q - 1)

DecrementQuantity ==
    /\ Commit(updateState(Cur, Closure,
                          [quantity |-> Decremented(designState.quantity)]))
    /\ UNCHANGED <<flags, reqs, keys, fetches>>

\* DesignControls.tsx:340
Incremented(q) == q + 1

IncrementQuantity ==
    /\ designState.quantity < MaxQuantity
    /\ Commit(updateState(Cur, Closure,
                          [quantity |-> Incremented(designState.quantity)]))
    /\ UNCHANGED <<flags, reqs, keys, fetches>>

\* ------------------------------------------------- description generation
\* DesignControls.tsx:140  the Random Idea button
DescriptionDisabled == isGeneratingDescription

\* App.tsx:33-37, up to the await
StartDescription ==
    /\ ~DescriptionDisabled
    /\ isGeneratingDescription' = TRUE
    /\ Commit(setError(Cur, Null))
    /\ descReqs' = Append(descReqs, Closure)
    /\ UNCHANGED <<isEnhancing, enhReqs, genReqs, readers, keys, fetches>>

\* App.tsx:38, 43 with geminiService.ts:32  response.text || ''
DescriptionSuccess(i, text) ==
    /\ i \in 1..Len(descReqs)
    /\ geminiKey
    /\ Resumed(updateState(Cur, descReqs[i], [prompt |-> text]))
    /\ isGeneratingDescription' = Set(isGeneratingDescription, FALSE)
    /\ descReqs' = RemoveAt(descReqs, i)
    /\ UNCHANGED <<isEnhancing, enhReqs, genReqs, readers, keys, fetches>>

\* App.tsx:39-43 with geminiService.ts:16-18, 33-36
DescriptionFailure(i) ==
    /\ i \in 1..Len(descReqs)
    /\ Resumed(setError(Cur, DescriptionErrorMessage))
    /\ isGeneratingDescription' = Set(isGeneratingDescription, FALSE)
    /\ descReqs' = RemoveAt(descReqs, i)
    /\ UNCHANGED <<isEnhancing, enhReqs, genReqs, readers, keys, fetches>>

\* ------------------------------------------------------ prompt enhancement
\* DesignControls.tsx:132  the Enhance button
EnhanceDisabled == isEnhancing \/ Trim(designState.prompt) = <<>>

\* geminiService.ts:51-60, key present: result.text?.trim() || currentPrompt,
\* the original prompt when the call raises.
enhancePrompt(currentPrompt, response) ==
    IF response = NetError THEN currentPrompt
    ELSE IF Trim(response) # <<>> THEN Trim(response) ELSE currentPrompt

\* App.tsx:47-52, up to the await
StartEnhance ==
    /\ ~EnhanceDisabled
    /\ Trim(designState.prompt) # <<>>
    /\ isEnhancing' = TRUE
    /\ Commit(setError(Cur, Null))
    /\ enhReqs' = Append(enhReqs, EnhanceClosure)
    /\ UNCHANGED <<isGeneratingDescription, descReqs, genReqs, readers, keys, fetches>>

\* App.tsx:53, 58
EnhanceReturn(i, response) ==
    /\ i \in 1..Len(enhReqs)
    /\ geminiKey
    /\ Resumed(updateState(Cur, enhReqs[i],
                          [prompt |-> enhancePrompt(enhReqs[i].prompt, response)]))
    /\ isEnhancing' = Set(isEnhancing, FALSE)
    /\ enhReqs' = RemoveAt(enhReqs, i)
    /\ UNCHANGED <<isGeneratingDescription, descReqs, genReqs, readers, keys, fetches>>

\* App.tsx:54-58 with geminiService.ts:43  the key is missing
EnhanceThrow(i) ==
    /\ i \in 1..Len(enhReqs)
    /\ ~geminiKey
    /\ Resumed(setError(Cur, EnhanceErrorMessage))
    /\ isEnhancing' = Set(isEnhancing, FALSE)
    /\ enhReqs' = RemoveAt(enhReqs, i)
    /\ UNCHANGED <<isGeneratingDescription, descReqs, genReqs, readers, keys, fetches>>

\* --------------------------------------------------------- image generation
GenerateDisabledNoBusy == Trim(designState.prompt) = <<>>

GenerateDisabledOnlyBusy == designState.isGenerating

\* DesignControls.tsx:189  the Generate Design button
GenerateDisabled == designState.isGenerating \/ Trim(designState.prompt) = <<>>

\* App.tsx:62-67, up to the await
StartGenerate ==
    /\ ~GenerateDisabled
    /\ designState.prompt # <<>>
    /\ Commit(setError(updateState(Cur, Closure, [isGenerating |-> TRUE]), Null))
    /\ genReqs' = Append(genReqs, Closure)
    /\ UNCHANGED <<flags, descReqs, enhReqs, readers, keys, fetches>>

\* App.tsx:68
GenerateSuccess(i, img) ==
    /\ i \in 1..Len(genReqs)
    /\ openaiKey
    /\ Resumed(updateState(Cur, genReqs[i],
                          [generatedImageBase64 |-> img,
                           uploadedImage |-> FALSE,
                           isGenerating |-> FALSE]))
    /\ genReqs' = RemoveAt(genReqs, i)
    /\ UNCHANGED <<flags, descReqs, enhReqs, readers, keys, fetches>>

GenerateFailureStaysBusy(i, message) ==
    /\ i \in 1..Len(genReqs)
    /\ Resumed(setError(Cur, IF message # "" THEN message
                            ELSE GenerateFallbackMessage))
    /\ genReqs' = RemoveAt(genReqs, i)
    /\ UNCHANGED <<flags, descReqs, enhReqs, readers, keys, fetches>>

GenerateFailureClearsArtwork(i, message) ==
    /\ i \in 1..Len(genReqs)
    /\ IF openaiKey THEN message \in OpenAIFailureMessages
                    ELSE message = OpenAIKeyMissingMessage
    /\ Resumed(updateState(setError(Cur, IF message # "" THEN message
                                        ELSE GenerateFallbackMessage),
                          genReqs[i], [isGenerating |-> FALSE,
                                       generatedImageBase64 |-> Null,
                                       uploadedImage |-> FALSE]))
    /\ genReqs' = RemoveAt(genReqs, i)
    /\ UNCHANGED <<flags, descReqs, enhReqs, readers, keys, fetches>>

\* App.tsx:69-73: setError(err.message || ...), then updateState.
GenerateFailure(i, message) ==
    /\ i \in 1..Len(genReqs)
    /\ IF openaiKey THEN message \in OpenAIFailureMessages
                    ELSE message = OpenAIKeyMissingMessage
    /\ Resumed(updateState(setError(Cur, IF message # "" THEN message
                                        ELSE GenerateFallbackMessage),
                          genReqs[i], [isGenerating |-> FALSE]))
    /\ genReqs' = RemoveAt(genReqs, i)
    /\ UNCHANGED <<flags, descReqs, enhReqs, readers, keys, fetches>>

\* ------------------------------------------------------------------ upload
\* DesignControls.tsx:218  the preview (with the remove button) replaces the
\* upload button while uploaded artwork is bound.
PreviewShown ==
    designState.generatedImageBase64 # Null /\ designState.uploadedImage

IsImageTypeAny(type) == TRUE

\* DesignControls.tsx:50  file.type.startsWith('image/')
IsImageType(type) == type[1] = "image"

\* DesignControls.tsx:47-64, 210-217  the change event of the file input,
\* which is rendered whether or not the preview is shown: the handler tests
\* the file chosen and nothing else. The Upload Image button (233-236) only
\* opens the dialog of the input.
FileSelect(file, data) ==
    /\ Len(fetches) + Len(readers) < MaxReaders
    /\ readers' = IF file # NoFile /\ IsImageType(file)
                  THEN Append(readers, [result |-> data, closure |-> Closure])
                  ELSE readers
    /\ Commit(Cur)
    /\ UNCHANGED <<flags, descReqs, enhReqs, genReqs, keys, fetches>>

handleUploadImageKeepFlag(s, cl, imageData) ==
    IF imageData # Null
    THEN updateState(s, cl, [generatedImageBase64 |-> imageData,
                             uploadedImage |-> TRUE])
    ELSE updateState(s, cl, [generatedImageBase64 |-> Null])

\* App.tsx:76-82
handleUploadImage(s, cl, imageData) ==
    IF imageData # Null
    THEN updateState(s, cl, [generatedImageBase64 |-> imageData,
                             uploadedImage |-> TRUE])
    ELSE updateState(s, cl, [generatedImageBase64 |-> Null,
                             uploadedImage |-> FALSE])

\* DesignControls.tsx:54-57  reader.onload
ReaderLoad(i) ==
    /\ i \in 1..Len(readers)
    /\ Resumed(handleUploadImage(Cur, readers[i].closure, readers[i].result))
    /\ readers' = RemoveAt(readers, i)
    /\ UNCHANGED <<flags, descReqs, enhReqs, genReqs, keys, fetches>>

\* DesignControls.tsx:66-68, 226
RemoveUpload ==
    /\ PreviewShown
    /\ Commit(handleUploadImage(Cur, Closure, Null))
    /\ UNCHANGED <<flags, reqs, keys, fetches>>

\* ------------------------------------------------------ image suggestions
\* DesignControls.tsx:158-166  the buttons of the suggestions are rendered
SuggestionsShown ==
    /\ Len(Trim(designState.prompt)) >= MinSuggestLength
    /\ images.type = "array"
    /\ Len(images.items) > 0

\* DesignControls.tsx:70-72, 170  a suggestion is clicked: its image is
\* fetched. The handler holds the onUploadImage of the render of the click.
PixabayImageSelect ==
    /\ SuggestionsShown
    /\ Len(fetches) + Len(readers) < MaxReaders
    /\ fetches' = Append(fetches, Closure)
    /\ Commit(Cur)
    /\ UNCHANGED <<flags, reqs, keys>>

\* DesignControls.tsx:72-79  the fetch resolved, whatever its status and
\* content type, and its blob was read: a FileReader starts on it.
PixabayFetched(i, data) ==
    /\ i \in 1..Len(fetches)
    /\ readers' = Append(readers, [result |-> data, closure |-> fetches[i]])
    /\ fetches' = RemoveAt(fetches, i)
    /\ Resumed(Cur)
    /\ UNCHANGED <<flags, descReqs, enhReqs, genReqs, keys>>

\* DesignControls.tsx:80-82  the fetch or the blob raised: it is logged
PixabayFetchFailed(i) ==
    /\ i \in 1..Len(fetches)
    /\ fetches' = RemoveAt(fetches, i)
    /\ Resumed(Cur)
    /\ UNCHANGED <<flags, reqs, keys>>

\* ---------------------------------------------------------------- services
\* The outcome of a call: the value returned or the message of the Error
\* thrown, and whether the call went to the network.
Return(value, fetched) == [fetched |-> fetched, kind |-> "return", value |-> value]
Throw(message, fetched) == [fetched |-> fetched, kind |-> "throw", value |-> message]

GeminiKeyMissingMessage == "API Key is missing."
DescriptionServiceMessage == "Failed to generate description."
NoImageDataMessage ==
    "No image data returned from OpenAI. Please try a different prompt."
FetchFailedMessage == "Failed to fetch"

\* What fetch and response.json() yield: fetch rejects, or resolves to a
\* response with its ok flag and its body (not JSON, null, or an object with
\* the fields given).
Rejected == [fetch |-> "rejects"]
Response(ok, body) == [body |-> body, fetch |-> "resolves", ok |-> ok]
NotJson == [json |-> "invalid"]
JsonNull == [json |-> "null"]
JsonObject(fields) == [fields |-> fields, json |-> "object"]
Photos == {<<>>, <<"photo">>}

SearchResponses(field) ==
    {Rejected, Response(FALSE, NotJson), Response(TRUE, NotJson),
     Response(TRUE, JsonNull), Response(TRUE, JsonObject([total |-> 0]))}
        \cup {Response(TRUE, JsonObject([f \in {field} |-> ph])) : ph \in Photos}

\* data.hits, data.photos: the field of a parsed body, undefined when the
\* object has no such field.
Field(body, field) ==
    IF field \in DOMAIN body.fields THEN Array(body.fields[field]) ELSE Undefined

\* pixabayService.ts:25-32, geminiService.ts:164-171: the returns before fetch
SearchSkipsFetch(key, query) == ~key \/ Trim(query) = <<>>

SearchWithoutKeyCheck(key, query, response, field) ==
    IF Trim(query) = <<>> THEN Return(Array(<<>>), FALSE)
    ELSE IF response.fetch = "rejects" THEN Return(Array(<<>>), TRUE)
    ELSE IF ~response.ok THEN Return(Array(<<>>), TRUE)
    ELSE IF response.body.json # "object" THEN Return(Array(<<>>), TRUE)
    ELSE Return(Field(response.body, field), TRUE)

\* pixabayService.ts:24-49, geminiService.ts:163-193
Search(key, query, response, field) ==
    IF SearchSkipsFetch(key, query) THEN Return(Array(<<>>), FALSE)
    ELSE IF response.fetch = "rejects" THEN Return(Array(<<>>), TRUE)
    ELSE IF ~response.ok THEN Return(Array(<<>>), TRUE)
    ELSE IF response.body.json # "object" THEN Return(Array(<<>>), TRUE)
    ELSE Return(Field(response.body, field), TRUE)

searchPixabayImages(key, query, response) == Search(key, query, response, "hits")
searchPexelsPhotos(key, query, response) == Search(key, query, response, "photos")

\* geminiService.ts:15-37
generateCreativePrompt(key, response) ==
    IF ~key THEN Throw(GeminiKeyMissingMessage, FALSE)
    ELSE IF response = NetError THEN Throw(DescriptionServiceMessage, TRUE)
    ELSE Return(response, TRUE)

\* geminiService.ts:42-61, with the key test of line 43
enhancePromptOrThrow(key, currentPrompt, response) ==
    IF ~key THEN Throw(GeminiKeyMissingMessage, FALSE)
    ELSE Return(enhancePrompt(currentPrompt, response), TRUE)

\* What the image API answers: fetch rejects, an error status, a body
\* without image data, a body with the image.
ImageResponses == {"rejects", "error status", "no data", "image"}

\* geminiService.ts:83-133
generateTShirtDesign(key, response) ==
    IF ~key THEN Throw(OpenAIKeyMissingMessage, FALSE)
    ELSE IF response = "rejects" THEN Throw(FetchFailedMessage, TRUE)
    ELSE IF response = "error status" THEN Throw("OpenAI API Error: 500", TRUE)
    ELSE IF response = "no data" THEN Throw(NoImageDataMessage, TRUE)
    ELSE Return("data:image/png;base64", TRUE)

\* ------------------------------------------------- api/generate-image.ts
\* req.method
Methods == {"OPTIONS", "GET", "POST"}

\* req.body: none was sent, or the parsed JSON object with its prompt field
\* (absent, empty, a text).
NoPrompt == [size |-> "1024x1024"]
RequestBodies ==
    {Undefined, JsonObject(NoPrompt), JsonObject([prompt |-> ""]),
     JsonObject([prompt |-> "a cat"])}

\* What the image API answers to the handler: fetch rejects, or resolves to
\* a response with its status and body.
Upstream(status, body) ==
    [body |-> body, fetch |-> "resolves", ok |-> status \in 200..299,
     status |-> status]
Upstreams ==
    {Rejected,
     Upstream(429, JsonObject([error |-> [message |-> "Rate limit"]])),
     Upstream(401, NotJson),
     Upstream(200, NotJson),
     Upstream(200, JsonNull),
     Upstream(200, JsonObject([data |-> <<>>])),
     Upstream(200, JsonObject([data |-> <<[b64_json |-> "AAAA"]>>]))}

\* res.status(code).json(body), res.status(code).end()
Res(status, body) == [body |-> body, status |-> status]
NoContent == [none |-> TRUE]

\* generate-image.ts:29, 31  the prompt of the body is truthy
HasPrompt(body) ==
    /\ "prompt" \in DOMAIN body.fields
    /\ body.fields.prompt # ""

\* generate-image.ts:51-55  the upstream answered an error status
UpstreamErrorMessage(up) ==
    IF up.body.json = "object" /\ "error" \in DOMAIN up.body.fields
    THEN up.body.fields.error.message
    ELSE "HTTP " \o ToString(up.status)

\* generate-image.ts:57-65  the upstream answered a success status; the
\* message of the exception of response.json() or of data.data stands for
\* the one of the JavaScript engine (67-70).
UpstreamSuccess(up) ==
    IF up.body.json = "invalid" THEN Res(500, [error |-> "Unexpected token"])
    ELSE IF up.body.json = "null" THEN Res(500, [error |-> "Cannot read properties of null"])
    ELSE IF /\ "data" \in DOMAIN up.body.fields
            /\ Len(up.body.fields.data) > 0
            /\ up.body.fields.data[1].b64_json # ""
    THEN Res(200, [image |-> "data:image/png;base64," \o up.body.fields.data[1].b64_json])
    ELSE Res(500, [error |-> "No image data returned"])

\* generate-image.ts:6-71: the responses sent, in order, and whether the
\* upstream was called.
handler(method, key, body, up) ==
    IF method = "OPTIONS"
    THEN [responses |-> <<Res(200, NoContent)>>, fetched |-> FALSE]
    ELSE IF method # "POST"
    THEN [responses |-> <<Res(405, [error |-> "Method not allowed"])>>,
          fetched |-> FALSE]
    ELSE IF ~key
    THEN [responses |-> <<Res(500, [error |-> "OpenAI API key not configured"])>>,
          fetched |-> FALSE]
    ELSE IF body = Undefined
    THEN [responses |-> <<Res(500, [error |-> "Cannot destructure property"])>>,
          fetched |-> FALSE]
    ELSE IF ~HasPrompt(body)
    THEN [responses |-> <<Res(400, [error |-> "Prompt is required"])>>,
          fetched |-> FALSE]
    ELSE IF up.fetch = "rejects"
    THEN [responses |-> <<Res(500, [error |-> FetchFailedMessage])>>,
          fetched |-> TRUE]
    ELSE IF ~up.ok
    THEN [responses |-> <<Res(up.status, [error |-> UpstreamErrorMessage(up)])>>,
          fetched |-> TRUE]
    ELSE [responses |-> <<UpstreamSuccess(up)>>, fetched |-> TRUE]

\* -------------------------------------------------------- usePixabaySearch
\* DesignControls.tsx:45 calls the hook with state.prompt. usePexelsSearch
\* (geminiService.ts:198-223) is the same code over searchPexelsPhotos.
Min(a, b) == IF a <= b THEN a ELSE b

\* setTimeout: an id no pending timer has.
NewTimer(ts) ==
    CHOOSE n \in 1..(Cardinality(ts) + 1) :
        /\ \A t \in ts : t.id # n
        /\ \A k \in 1..(n - 1) : \E t \in ts : t.id = k

\* pixabayService.ts:70-76: the cleanup of the previous run (clearTimeout),
\* then the effect for the new query (setTimeout).
SearchEffect(query) ==
    LET kept == {t \in timers : t.id # timer}
    IN  /\ timers' = kept \cup {[id |-> NewTimer(kept), query |-> query,
                                  remaining |-> DebounceMs]}
        /\ timer' = NewTimer(kept)
        /\ sinceChange' = 0

\* pixabayService.ts:70-76  the first run of the effect
HookMounted ==
    /\ timer = 0
    /\ SearchEffect(designState.prompt)

\* The first render of DesignControls.
MountSearch ==
    /\ HookMounted
    /\ UNCHANGED <<appVars, viewerVars, lastOp, searches, images, isLoading, svc>>

\* pixabayService.ts:75  the cleanup of the effect, as the unmount runs it
ClearedTimers == {t \in timers : t.id # timer}

\* pixabayService.ts:70-76 under DesignControls.tsx:45: after the commit of a
\* handler of App, the effect runs when state.prompt, the query, changed;
\* when the render threw, only the cleanup of the unmount runs.
Queried ==
    /\ timer # 0
    /\ IF RenderThrows(designState'.prompt, images)
       THEN /\ timers' = ClearedTimers
            /\ UNCHANGED <<timer, sinceChange>>
       ELSE IF designState'.prompt # designState.prompt
       THEN SearchEffect(designState'.prompt)
       ELSE UNCHANGED <<timers, timer, sinceChange>>
    /\ UNCHANGED <<lastOp, searches, images, isLoading, svc>>

\* DesignControls.tsx:150 with the hook
TypeQuery(p) ==
    /\ TypePrompt(p)
    /\ Queried

\* TickMs of time pass.
Tick ==
    /\ timer # 0
    /\ timers' = {[t EXCEPT !.remaining = Max(0, @ - TickMs)] : t \in timers}
    /\ sinceChange' = Min(DebounceMs, sinceChange + TickMs)
    /\ UNCHANGED <<appVars, viewerVars, lastOp, timer, searches, images, isLoading, svc>>

\* pixabayService.ts:71-73, 58-65: a timer expires and debouncedSearch runs
\* up to its await.
TimerFire(t) ==
    /\ t \in timers
    /\ t.remaining = 0
    /\ timers' = timers \ {t}
    /\ IF Trim(t.query) = <<>> \/ Len(t.query) < MinQueryLength
       THEN /\ images' = Set(images, Array(<<>>))
            /\ UNCHANGED <<isLoading, searches>>
       ELSE IF SearchSkipsFetch(pixabayKey, t.query)
       THEN /\ images' = Set(images,
                             searchPixabayImages(pixabayKey, t.query, Rejected).value)
            /\ isLoading' = Set(isLoading, FALSE)
            /\ UNCHANGED searches
       ELSE /\ Len(searches) < MaxSearches
            /\ isLoading' = Set(isLoading, TRUE)
            /\ searches' = Append(searches, t.query)
            /\ UNCHANGED images
    /\ UNCHANGED <<appVars, viewerVars, lastOp, timer, sinceChange, svc>>

\* pixabayService.ts:65-67: a search returns; DesignControls renders with
\* the value it set as the suggestions.
SearchSettle(i, response) ==
    /\ i \in 1..Len(searches)
    /\ images' = Set(images,
                     searchPixabayImages(pixabayKey, searches[i], response).value)
    /\ isLoading' = Set(isLoading, FALSE)
    /\ searches' = RemoveAt(searches, i)
    /\ timers' = IF RenderThrows(designState.prompt, images')
                 THEN ClearedTimers ELSE timers
    /\ UNCHANGED <<appVars, viewerVars, lastOp, timer, sinceChange, svc>>

\* ------------------------------------------------------------- ThreeViewer
\* Numbers of the scene are in hundredths (0.9 is 90).
ViewerState ==
    [shirtGroup |-> shirtGroup, printMeshRef |-> printMeshRef,
     materials |-> materials, loads |-> loads]

\* App.tsx:118-124  the props ThreeViewer is rendered with
Props(ds) ==
    [shirtColor |-> ds.shirtColor,
     designTexture |-> ds.generatedImageBase64,
     sleeveLength |-> ds.sleeveLength,
     fabricType |-> ds.fabric]

\* Object identities: <<name, n>> is the object `name` of build n. A rebuild
\* makes new objects: their n is not the n of the objects it replaces. The
\* objects a rebuild replaced stay alive only as the material a pending load
\* holds; they are all written Discarded.
Discarded == <<"printMat", 0>>
NewBuild(v) == IF v.printMeshRef = Null THEN 1 ELSE 3 - v.printMeshRef[2]

MaterialOf(mesh) == <<"printMat", mesh[2]>>

ClearGroupKeep(children) == children

ClearGroupOnce(children) ==
    IF Len(children) > 0 THEN Tail(children) ELSE children

\* ThreeViewer.tsx:148-153
RECURSIVE ClearGroup(_)
ClearGroup(children) ==
    IF Len(children) > 0 THEN ClearGroup(Tail(children)) ELSE children

RoughnessOfCotton(fabricType) == 90

\* ThreeViewer.tsx:157-166
Roughness(fabricType) ==
    IF fabricType = "Performance Poly" THEN 50
    ELSE IF fabricType = "Silk Blend" THEN 30 ELSE 90

Metalness(fabricType) ==
    IF fabricType = "Performance Poly" THEN 10
    ELSE IF fabricType = "Silk Blend" THEN 20 ELSE 0

\* ThreeViewer.tsx:192-233
SleeveParts(sleeveLength, b) ==
    IF sleeveLength # "Sleeveless"
    THEN LET isLong == sleeveLength = "Long Sleeve"
             armGeo == [shape |-> "Cylinder",
                        radiusTop |-> 22,
                        radiusBottom |-> IF isLong THEN 15 ELSE 20,
                        height |-> IF isLong THEN 160 ELSE 60]
         IN <<[id |-> <<"leftArm", b>>, geometry |-> armGeo,
               material |-> <<"material", b>>],
              [id |-> <<"rightArm", b>>, geometry |-> armGeo,
               material |-> <<"material", b>>]>>
    ELSE LET capGeo == [shape |-> "Sphere", radius |-> 23]
         IN <<[id |-> <<"leftCap", b>>, geometry |-> capGeo,
               material |-> <<"material", b>>],
              [id |-> <<"rightCap", b>>, geometry |-> capGeo,
               material |-> <<"material", b>>]>>

onLoadMapOnly(mat, tex) == [mat EXCEPT !.map = tex]

\* ThreeViewer.tsx:308-314  the load callback
onLoad(mat, tex) == [mat EXCEPT !.map = tex, !.opacity = 100]

\* ThreeViewer.tsx:303-320
updateTexture(v, texUrl, mesh) ==
    IF mesh = Null THEN v
    ELSE IF texUrl # Null /\ texUrl # ""
    THEN [v EXCEPT !.loads = @ (+) SetToBag({[url |-> texUrl, mat |-> MaterialOf(mesh)]})]
    ELSE [v EXCEPT !.materials[MaterialOf(mesh)] =
                       [@ EXCEPT !.map = Null, !.opacity = 0]]

\* After a rebuild: the materials of the meshes removed from the group are
\* out of the scene, and the loads started for them hold a discarded one.
Collect(v) ==
    LET live == {v.shirtGroup[i].material : i \in 1..Len(v.shirtGroup)}
        Held(l) == IF l.mat \in live THEN l ELSE [l EXCEPT !.mat = Discarded]
        held == {Held(l) : l \in BagToSet(v.loads)}
        Copies(h) == LET same == {l \in BagToSet(v.loads) : Held(l) = h}
                     IN  BagCardinality([l \in same |-> CopiesIn(l, v.loads)])
    IN  [v EXCEPT !.materials = [m \in live |-> v.materials[m]],
                  !.loads = [h \in held |-> Copies(h)]]

\* ThreeViewer.tsx:143-282  the group is cleared and built again
BuildGroup(v, props) ==
    LET b == NewBuild(v)
        cleared == ClearGroup(v.shirtGroup)
        material == [color |-> props.shirtColor,
                     roughness |-> Roughness(props.fabricType),
                     metalness |-> Metalness(props.fabricType)]
        torso == [id |-> <<"torso", b>>,
                  geometry |-> [shape |-> "Cylinder", radiusTop |-> 55,
                                radiusBottom |-> 55, height |-> 150],
                  material |-> <<"material", b>>]
        collar == [id |-> <<"collar", b>>,
                   geometry |-> [shape |-> "Torus", radius |-> 22, tube |-> 4],
                   material |-> <<"material", b>>]
        printMat == [map |-> Null, opacity |-> 0,
                     roughness |-> Roughness(props.fabricType),
                     metalness |-> Metalness(props.fabricType)]
        printMesh == [id |-> <<"printMesh", b>>,
                      geometry |-> [shape |-> "Cylinder", radiusTop |-> 56,
                                    radiusBottom |-> 56, height |-> 70],
                      material |-> <<"printMat", b>>]
        group == cleared \o <<torso, collar>> \o SleeveParts(props.sleeveLength, b)
                     \o <<printMesh>>
    IN  Collect([shirtGroup |-> group,
                 printMeshRef |-> printMesh.id,
                 materials |->
                     [m \in (DOMAIN v.materials) \cup {<<"material", b>>, <<"printMat", b>>} |->
                         IF m = <<"material", b>> THEN material
                         ELSE IF m = <<"printMat", b>> THEN printMat
                         ELSE v.materials[m]],
                 loads |-> v.loads])

RebuildEffectNoBind(v, props) == BuildGroup(v, props)

\* ThreeViewer.tsx:143-288  the rebuild, then the texture is bound again
RebuildEffect(v, props) ==
    LET built == BuildGroup(v, props)
    IN  updateTexture(built, props.designTexture, built.printMeshRef)

ColorEffectNone(v, props) == v

\* ThreeViewer.tsx:291-300
ColorEffect(v, props) ==
    LET touched == {v.shirtGroup[i].material :
                       i \in {j \in 1..Len(v.shirtGroup) :
                                 v.shirtGroup[j].id # v.printMeshRef}}
    IN  [v EXCEPT !.materials =
            [m \in DOMAIN v.materials |->
                IF m \in touched
                THEN [v.materials[m] EXCEPT !.color = props.shirtColor]
                ELSE v.materials[m]]]

\* ThreeViewer.tsx:322-324
TextureEffect(v, props) == updateTexture(v, props.designTexture, v.printMeshRef)

RunEffectsRebuildOnColor(v, old, new, mount) ==
    LET v1 == IF mount \/ old.sleeveLength # new.sleeveLength
                       \/ old.fabricType # new.fabricType
                       \/ old.shirtColor # new.shirtColor
              THEN RebuildEffect(v, new) ELSE v
        v2 == IF mount \/ old.shirtColor # new.shirtColor
              THEN ColorEffect(v1, new) ELSE v1
    IN  IF mount \/ old.designTexture # new.designTexture
        THEN TextureEffect(v2, new) ELSE v2

\* The effects of one commit, in the order the component declares them; an
\* effect runs on mount and when one of its dependencies changed.
RunEffects(v, old, new, mount) ==
    LET v1 == IF mount \/ old.sleeveLength # new.sleeveLength
                       \/ old.fabricType # new.fabricType
              THEN RebuildEffect(v, new) ELSE v
        v2 == IF mount \/ old.shirtColor # new.shirtColor
              THEN ColorEffect(v1, new) ELSE v1
    IN  IF mount \/ old.designTexture # new.designTexture
        THEN TextureEffect(v2, new) ELSE v2

SetViewer(v) ==
    /\ BagCardinality(v.loads) <= MaxLoads
    /\ shirtGroup' = v.shirtGroup
    /\ printMeshRef' = v.printMeshRef
    /\ materials' = v.materials
    /\ loads' = v.loads

\* ThreeViewer.tsx:38-140, then the first run of the other effects.
\* The init effect leaves an empty group.
ViewerMounted ==
    /\ shirtGroup = Null
    /\ SetViewer(RunEffects([ViewerState EXCEPT !.shirtGroup = <<>>],
                            Props(designState), Props(designState), TRUE))

\* The first render of ThreeViewer.
Mount ==
    /\ ViewerMounted
    /\ UNCHANGED <<appVars, lastOp, searchVars, svc>>

\* App.tsx:86-128  the first commit of App mounts DesignControls and
\* ThreeViewer together.
MountApp ==
    /\ ViewerMounted
    /\ HookMounted
    /\ UNCHANGED <<appVars, lastOp, searches, images, isLoading, svc>>

\* The effects of ThreeViewer after the commit a handler of App caused;
\* none runs when the render of DesignControls threw.
Rendered ==
    /\ shirtGroup # Null
    /\ IF RenderThrows(designState'.prompt, images)
       THEN UNCHANGED viewerVars
       ELSE SetViewer(RunEffects(ViewerState, Props(designState),
                                 Props(designState'), FALSE))

\* A handler of App that leaves the suggestions alone, and the effects.
Render ==
    /\ Rendered
    /\ UNCHANGED <<lastOp, searchVars, svc>>

TextureLoadedOnCurrent(l) ==
    /\ BagIn(l, loads)
    /\ SetViewer([ViewerState EXCEPT
                      !.materials[MaterialOf(printMeshRef)] = onLoad(@, l.url),
                      !.loads = @ (-) SetToBag({l})])
    /\ UNCHANGED <<appVars, lastOp, searchVars, svc>>

\* ThreeViewer.tsx:308  a load ends and its callback runs
TextureLoaded(l) ==
    /\ BagIn(l, loads)
    /\ SetViewer([ViewerState EXCEPT
                      !.materials = IF l.mat \in DOMAIN materials
                                    THEN [@ EXCEPT ![l.mat] = onLoad(@, l.url)]
                                    ELSE @,
                      !.loads = @ (-) SetToBag({l})])
    /\ UNCHANGED <<appVars, lastOp, searchVars, svc>>

\* ThreeViewer.tsx:308  a load fails: no error callback is given
TextureLoadError(l) ==
    /\ BagIn(l, loads)
    /\ SetViewer([ViewerState EXCEPT !.loads = @ (-) SetToBag({l})])
    /\ UNCHANGED <<appVars, lastOp, searchVars, svc>>

\* ------------------------------------------------------------------- Spec
\* The option fields: no handler reads them back. A session of Spec moves at
\* most MaxOptionChanges of them away from their initial values.
OptionFields == {"theme", "shirtColor", "size", "sleeveLength", "fabric", "quantity"}
ChangedOptions(ds) ==
    Cardinality({k \in OptionFields : ds[k] # InitialDesignState[k]})

\* A handler of App, with the history of Spec; ThreeViewer is left aside.
Traced(kind) ==
    /\ lastOp' = [kind |-> kind, hadError |-> error # Null]
    /\ ChangedOptions(designState') <= MaxOptionChanges
    /\ UNCHANGED <<viewerVars, searchVars, svc>>

Next ==
    \/ (\E t \in Themes : SelectTheme(t)) /\ Traced("edit")
    \/ (\E p \in Prompts : TypePrompt(p)) /\ Traced("edit")
    \/ (\E l \in SleeveLengths : SelectSleeve(l)) /\ Traced("edit")
    \/ (\E f \in FabricTypes : SelectFabric(f)) /\ Traced("edit")
    \/ (\E c \in SHIRT_COLORS : SelectColor(c)) /\ Traced("edit")
    \/ (\E z \in ShirtSizes : SelectSize(z)) /\ Traced("edit")
    \/ DecrementQuantity /\ Traced("decrement")
    \/ IncrementQuantity /\ Traced("edit")
    \/ StartDescription /\ Traced("start")
    \/ (\E i \in 1..Len(descReqs), text \in Prompts : DescriptionSuccess(i, text))
           /\ Traced("success")
    \/ (\E i \in 1..Len(descReqs) : DescriptionFailure(i)) /\ Traced("failure")
    \/ StartEnhance /\ Traced("start")
    \/ (\E i \in 1..Len(enhReqs), r \in AIResponses : EnhanceReturn(i, r))
           /\ Traced("success")
    \/ (\E i \in 1..Len(enhReqs) : EnhanceThrow(i)) /\ Traced("failure")
    \/ StartGenerate /\ Traced("start")
    \/ (\E i \in 1..Len(genReqs), img \in GeneratedImages : GenerateSuccess(i, img))
           /\ Traced("success")
    \/ (\E i \in 1..Len(genReqs),
           m \in OpenAIFailureMessages \cup {OpenAIKeyMissingMessage} :
              GenerateFailure(i, m)) /\ Traced("failure")
    \/ (\E f \in Files, d \in UploadedImages : FileSelect(f, d))
           /\ Traced("start")
    \/ (\E i \in 1..Len(readers) : ReaderLoad(i)) /\ Traced("success")
    \/ RemoveUpload /\ Traced("edit")

Spec == Init /\ [][Next]_vars

\* ----------------------------------------------------------- SpecControls
\* The controls of DesignControls, with the description request as the
\* source of the error messages that the edits find displayed.
NextControls ==
    \/ (\E t \in Themes : SelectTheme(t)) /\ Traced("edit")
    \/ (\E p \in Prompts : TypePrompt(p)) /\ Traced("edit")
    \/ (\E l \in SleeveLengths : SelectSleeve(l)) /\ Traced("edit")
    \/ (\E f \in FabricTypes : SelectFabric(f)) /\ Traced("edit")
    \/ (\E c \in SHIRT_COLORS : SelectColor(c)) /\ Traced("edit")
    \/ (\E z \in ShirtSizes : SelectSize(z)) /\ Traced("edit")
    \/ DecrementQuantity /\ Traced("decrement")
    \/ IncrementQuantity /\ Traced("edit")
    \/ StartDescription /\ Traced("start")
    \/ (\E i \in 1..Len(descReqs), text \in Prompts : DescriptionSuccess(i, text))
           /\ Traced("success")
    \/ (\E i \in 1..Len(descReqs) : DescriptionFailure(i)) /\ Traced("failure")

SpecControls == Init /\ [][NextControls]_vars

\* ----------------------------------------------------------- SpecSettling
\* The AI requests settle: a request awaited is eventually answered.
SettleDescription ==
    \/ (\E i \in 1..Len(descReqs), text \in Prompts : DescriptionSuccess(i, text))
           /\ Traced("success")
    \/ (\E i \in 1..Len(descReqs) : DescriptionFailure(i)) /\ Traced("failure")

SettleEnhance ==
    \/ (\E i \in 1..Len(enhReqs), r \in AIResponses : EnhanceReturn(i, r))
           /\ Traced("success")
    \/ (\E i \in 1..Len(enhReqs) : EnhanceThrow(i)) /\ Traced("failure")

SettleGenerate ==
    \/ (\E i \in 1..Len(genReqs), img \in GeneratedImages : GenerateSuccess(i, img))
           /\ Traced("success")
    \/ (\E i \in 1..Len(genReqs),
           m \in OpenAIFailureMessages \cup {OpenAIKeyMissingMessage} :
              GenerateFailure(i, m)) /\ Traced("failure")

\* The requests of App under prompt edits and uploads; the option controls,
\* which no request reads after its await, are left aside.
NextSettling ==
    \/ (\E p \in Prompts : TypePrompt(p)) /\ Traced("edit")
    \/ StartDescription /\ Traced("start")
    \/ SettleDescription
    \/ StartEnhance /\ Traced("start")
    \/ SettleEnhance
    \/ StartGenerate /\ Traced("start")
    \/ SettleGenerate
    \/ (\E f \in Files, d \in UploadedImages : FileSelect(f, d))
           /\ Traced("start")
    \/ (\E i \in 1..Len(readers) : ReaderLoad(i)) /\ Traced("success")
    \/ RemoveUpload /\ Traced("edit")

SpecSettling ==
    /\ Init /\ [][NextSettling]_vars
    /\ WF_vars(SettleDescription)
    /\ WF_vars(SettleEnhance)
    /\ WF_vars(SettleGenerate)

\* ------------------------------------------------------------- SpecViewer
\* ThreeViewer under the handlers of App that lead to a change of its props:
\* each handler's commit is followed by the effects it schedules (Render).
NextViewer ==
    \/ Mount
    \/ (\E l \in SleeveLengths : SelectSleeve(l)) /\ Render
    \/ (\E f \in FabricTypes : SelectFabric(f)) /\ Render
    \/ (\E c \in SHIRT_COLORS : SelectColor(c)) /\ Render
    \/ (\E p \in {q \in Prompts : Trim(q) # <<>>} : TypePrompt(p)) /\ Render
    \/ StartGenerate /\ Render
    \/ (\E i \in 1..Len(genReqs), img \in GeneratedImages : GenerateSuccess(i, img))
           /\ Render
    \/ (\E f \in Files, d \in UploadedImages : FileSelect(f, d)) /\ Render
    \/ (\E i \in 1..Len(readers) : ReaderLoad(i)) /\ Render
    \/ RemoveUpload /\ Render
    \/ \E l \in BagToSet(loads) : TextureLoaded(l)
    \/ \E l \in BagToSet(loads) : TextureLoadError(l)

SpecViewer == Init /\ [][NextViewer]_vars

\* ------------------------------------------------------------ SpecGallery
\* ThreeViewer under the suggestions: the description is typed, suggestions
\* are picked, files are uploaded, the artwork is removed.
NextGallery ==
    \/ MountApp
    \/ (\E p \in ArtworkQueries : TypeQuery(p)) /\ Rendered
    \/ Tick
    \/ \E t \in timers : TimerFire(t)
    \/ \E i \in 1..Len(searches), r \in SearchResponses("hits") : SearchSettle(i, r)
    \/ PixabayImageSelect /\ Render
    \/ (\E i \in 1..Len(fetches), d \in PickedImages : PixabayFetched(i, d))
           /\ Render
    \/ (\E i \in 1..Len(fetches) : PixabayFetchFailed(i)) /\ Render
    \/ (\E f \in Files, d \in UploadedImages : FileSelect(f, d)) /\ Render
    \/ (\E i \in 1..Len(readers) : ReaderLoad(i)) /\ Render
    \/ RemoveUpload /\ Render
    \/ \E l \in BagToSet(loads) : TextureLoaded(l)
    \/ \E l \in BagToSet(loads) : TextureLoadError(l)

SpecGallery == Init /\ [][NextGallery]_vars

\* ------------------------------------------------------------- SpecSearch
\* The suggestions of DesignControls while the description is typed.
NextSearch ==
    \/ MountSearch
    \/ (\E p \in Queries : TypeQuery(p)) /\ UNCHANGED viewerVars
    \/ Tick
    \/ \E t \in timers : TimerFire(t)
    \/ \E i \in 1..Len(searches), r \in SearchResponses("hits") : SearchSettle(i, r)

SpecSearch == Init /\ [][NextSearch]_vars

\* ------------------------------------------------------------ SpecArtwork
\* A handler of App while the suggestions are watched; ThreeViewer is left
\* aside.
Watched ==
    /\ Queried
    /\ UNCHANGED viewerVars

\* The artwork of App: the suggestions of the description typed or
\* generated, the picks among them, the uploads, their removal and the image
\* requests.
NextArtwork ==
    \/ MountSearch
    \/ (\E p \in ArtworkQueries : TypeQuery(p)) /\ UNCHANGED viewerVars
    \/ StartDescription /\ Watched
    \/ (\E i \in 1..Len(descReqs), text \in ArtworkQueries :
            DescriptionSuccess(i, text)) /\ Watched
    \/ (\E i \in 1..Len(descReqs) : DescriptionFailure(i)) /\ Watched
    \/ Tick
    \/ \E t \in timers : TimerFire(t)
    \/ \E i \in 1..Len(searches), r \in SearchResponses("hits") : SearchSettle(i, r)
    \/ PixabayImageSelect /\ Watched
    \/ (\E i \in 1..Len(fetches), d \in PickedImages : PixabayFetched(i, d))
           /\ Watched
    \/ (\E i \in 1..Len(fetches) : PixabayFetchFailed(i)) /\ Watched
    \/ (\E f \in Files, d \in UploadedImages : FileSelect(f, d)) /\ Watched
    \/ (\E i \in 1..Len(readers) : ReaderLoad(i)) /\ Watched
    \/ RemoveUpload /\ Watched
    \/ StartGenerate /\ Watched
    \/ (\E i \in 1..Len(genReqs), img \in GeneratedImages : GenerateSuccess(i, img))
           /\ Watched
    \/ (\E i \in 1..Len(genReqs),
           m \in OpenAIFailureMessages \cup {OpenAIKeyMissingMessage} :
              GenerateFailure(i, m)) /\ Watched

SpecArtwork == Init /\ [][NextArtwork]_vars

\* ----------------------------------------------------------- SpecServices
\* The service functions, called with every credential and every answer.
CallGenerateCreativePrompt ==
    \E key \in BOOLEAN, r \in Prompts \cup {NetError} :
        /\ svc' = [fn |-> "generateCreativePrompt", key |-> key, response |-> r,
            result |-> generateCreativePrompt(key, r)]
        /\ UNCHANGED <<appVars, viewerVars, lastOp, searchVars>>

CallEnhancePrompt ==
    \E key \in BOOLEAN, p \in Prompts, r \in AIResponses :
        /\ svc' = [currentPrompt |-> p, fn |-> "enhancePrompt", key |-> key,
            response |-> r, result |-> enhancePromptOrThrow(key, p, r)]
        /\ UNCHANGED <<appVars, viewerVars, lastOp, searchVars>>

CallGenerateTShirtDesign ==
    \E key \in BOOLEAN, p \in Prompts, r \in ImageResponses :
        /\ svc' = [fn |-> "generateTShirtDesign", key |-> key, response |-> r,
            result |-> generateTShirtDesign(key, r), userPrompt |-> p]
        /\ UNCHANGED <<appVars, viewerVars, lastOp, searchVars>>

CallSearchPixabayImages ==
    \E key \in BOOLEAN, q \in Queries, r \in SearchResponses("hits") :
        /\ svc' = [fn |-> "searchPixabayImages", key |-> key, query |-> q,
            response |-> r, result |-> searchPixabayImages(key, q, r)]
        /\ UNCHANGED <<appVars, viewerVars, lastOp, searchVars>>

CallSearchPexelsPhotos ==
    \E key \in BOOLEAN, q \in Queries, r \in SearchResponses("photos") :
        /\ svc' = [fn |-> "searchPexelsPhotos", key |-> key, query |-> q,
            response |-> r, result |-> searchPexelsPhotos(key, q, r)]
        /\ UNCHANGED <<appVars, viewerVars, lastOp, searchVars>>

NextServices ==
    \/ CallGenerateCreativePrompt
    \/ CallEnhancePrompt
    \/ CallGenerateTShirtDesign
    \/ CallSearchPixabayImages
    \/ CallSearchPexelsPhotos

SpecServices == Init /\ [][NextServices]_vars

\* ------------------------------------------------------------ SpecHandler
\* The handler, called with every request, credential and upstream answer.
CallHandler ==
    \E method \in Methods, key \in BOOLEAN, body \in RequestBodies,
       up \in Upstreams :
        /\ svc' = [body |-> body, fn |-> "handler", key |-> key,
                   method |-> method, result |-> handler(method, key, body, up),
                   upstream |-> up]
        /\ UNCHANGED <<appVars, viewerVars, lastOp, searchVars>>

NextHandler == CallHandler

SpecHandler == Init /\ [][NextHandler]_vars

\* ------------------------------------------------------------ properties
\* The print-decal material of the mounted viewer, and the artwork bound.
PrintMat == materials[MaterialOf(printMeshRef)]
Artwork == designState.generatedImageBase64
PartsNamed(names) ==
    {i \in 1..Len(shirtGroup) : shirtGroup[i].id[1] \in names}

\* C1: once the failure path of an AI request (description, enhancement,
\* image generation) has run, the error field holds a message (is not null),
\* whatever the state the request was started from.
C1_FailureSetsError == lastOp.kind = "failure" => error # Null

\* C2: at most one request of each kind (description, enhancement, image
\* generation) is in flight, in every reachable state.
C2_OneInFlightPerKind ==
    /\ Len(descReqs) <= 1
    /\ Len(enhReqs) <= 1
    /\ Len(genReqs) <= 1

C2_AllThreeInFlight ==
    /\ Len(descReqs) = 1 /\ isGeneratingDescription
    /\ Len(enhReqs) = 1 /\ isEnhancing
    /\ Len(genReqs) = 1 /\ designState.isGenerating

\* C3: a handler that calls updateState while the error field is not null
\* (an edit through a control, or the success path of a request or of an
\* upload, whenever that was started) leaves the error field null.
C3_UpdateStateClearsError ==
    lastOp.kind \in {"edit", "decrement", "success"} /\ lastOp.hadError
        => error = Null

\* C4: an edit made through a control while an error message is displayed
\* leaves the error field null.
C4_EditClearsError ==
    lastOp.kind \in {"edit", "decrement"} /\ lastOp.hadError => error = Null

C4_ErrorClearedByEdit ==
    lastOp.kind = "edit" /\ lastOp.hadError /\ error = Null

\* C5: whenever no artwork is bound (and the viewer is mounted, so that the
\* texture binder has run for it) the decal material has opacity 0 and no map.
C5_NoArtworkNoDecal ==
    printMeshRef # Null /\ Artwork = Null
        => PrintMat.opacity = 0 /\ PrintMat.map = Null

\* C6: when the load of an image started for a decal material of the group
\* completes, that material has the image as its map and opacity 1.
C6_LoadedImageShown ==
    [][\A l \in BagToSet(loads) :
          TextureLoaded(l) /\ l.mat \in DOMAIN materials
              => materials'[l.mat].map = l.url /\ materials'[l.mat].opacity = 100]_vars

C6_ArtworkShown ==
    /\ printMeshRef # Null
    /\ Artwork # Null
    /\ PrintMat.map = Artwork
    /\ PrintMat.opacity = 100

\* C7: a step that replaces the decal surface while artwork is bound starts
\* a load of the bound artwork for the material of the new decal surface.
C7_RebuildBindsArtwork ==
    [][printMeshRef' # printMeshRef /\ designState'.generatedImageBase64 # Null
          => BagIn([url |-> designState'.generatedImageBase64,
                    mat |-> MaterialOf(printMeshRef')], loads')]_vars

C7_ArtworkBoundAgain ==
    /\ printMeshRef # Null
    /\ Artwork # Null
    /\ BagIn([url |-> Artwork, mat |-> Discarded], loads)
    /\ BagIn([url |-> Artwork, mat |-> MaterialOf(printMeshRef)], loads)
    /\ PrintMat.map = Null

\* C8: the mounted group holds two sleeve cylinders and no shoulder cap when
\* the sleeve length is short or long, two shoulder caps and no sleeve
\* cylinder when it is sleeveless.
C8_OneSleeveConfiguration ==
    printMeshRef # Null =>
        LET arms == Cardinality(PartsNamed({"leftArm", "rightArm"}))
            caps == Cardinality(PartsNamed({"leftCap", "rightCap"}))
        IN  IF designState.sleeveLength = "Sleeveless"
            THEN arms = 0 /\ caps = 2
            ELSE arms = 2 /\ caps = 0

C8_RebuiltSleeveless ==
    /\ printMeshRef # Null
    /\ designState.sleeveLength = "Sleeveless"
    /\ Cardinality(PartsNamed({"leftCap", "rightCap"})) = 2
    /\ Cardinality(PartsNamed({"leftArm", "rightArm"})) = 0

\* C9: the mounted group holds exactly one print-decal surface, the one of
\* the latest build, whether or not artwork is bound.
C9_OnePrintDecal ==
    printMeshRef # Null =>
        /\ Cardinality(PartsNamed({"printMesh"})) = 1
        /\ \A i \in PartsNamed({"printMesh"}) : shirtGroup[i].id = printMeshRef

C9_RebuiltWithArtwork ==
    /\ printMeshRef # Null
    /\ printMeshRef[2] = 2
    /\ PrintMat.map # Null
    /\ Cardinality(PartsNamed({"printMesh"})) = 1

\* C10: quantity is at least 1 in every reachable state.
C10_QuantityAtLeastOne == designState.quantity >= 1

C10_DecrementedToOne == lastOp.kind = "decrement" /\ designState.quantity = 1

\* C11: from the initial quantity, three increments and one decrement give 3;
\* a decrement at q > 1 gives q - 1 and an increment at q gives q + 1.
C11_QuantityArithmetic ==
    /\ Decremented(Incremented(Incremented(Incremented(
            InitialDesignState.quantity)))) = 3
    /\ [][((lastOp'.kind = "decrement" /\ DecrementQuantity
                /\ designState.quantity > 1)
               => designState'.quantity = designState.quantity - 1)
           /\ ((designState'.quantity # designState.quantity /\ IncrementQuantity)
               => designState'.quantity = designState.quantity + 1)]_vars

C11_DecrementedToThree ==
    lastOp.kind = "decrement" /\ designState.quantity = 3

\* The fields of designState a step leaves as they were.
Kept(fields) == \A k \in fields : designState'[k] = designState[k]
AllBut(fields) == (DOMAIN designState) \ fields

\* C12: a handler's updateState changes no field but the ones it names: the
\* completion of a request or of an upload, and an edit of the prompt, keep
\* every other field as it was just before, whatever was changed while the
\* request was in flight.
C12_UpdateStateFrame ==
    [][/\ (/\ Len(descReqs') < Len(descReqs)
           /\ \E i \in 1..Len(descReqs), text \in Prompts : DescriptionSuccess(i, text))
            => Kept(AllBut({"prompt"}))
       /\ (/\ Len(enhReqs') < Len(enhReqs)
           /\ \E i \in 1..Len(enhReqs), r \in AIResponses : EnhanceReturn(i, r))
            => Kept(AllBut({"prompt"}))
       /\ (/\ Len(genReqs') < Len(genReqs)
           /\ \E i \in 1..Len(genReqs), img \in GeneratedImages : GenerateSuccess(i, img))
            => Kept(AllBut({"generatedImageBase64", "uploadedImage", "isGenerating"}))
       /\ (/\ Len(genReqs') < Len(genReqs)
           /\ \E i \in 1..Len(genReqs),
                 m \in OpenAIFailureMessages \cup {OpenAIKeyMissingMessage} :
                    GenerateFailure(i, m))
            => Kept(AllBut({"isGenerating"}))
       /\ (/\ Len(readers') < Len(readers)
           /\ \E i \in 1..Len(readers) : ReaderLoad(i))
            => Kept(AllBut({"generatedImageBase64", "uploadedImage"}))
       /\ (/\ designState'.prompt # designState.prompt
           /\ \E p \in Prompts : TypePrompt(p))
            => Kept(AllBut({"prompt"}))]_vars

C12_EditInFlightKept ==
    /\ lastOp.kind = "success"
    /\ Len(genReqs) = 1
    /\ designState.isGenerating
    /\ designState.uploadedImage
    /\ Trim(designState.prompt) = <<>>

\* C13: the response that arrives writes its value whatever happened while it
\* was in flight: a description writes its text to the prompt, an enhancement
\* its result for the prompt it was sent, and a generated image replaces the
\* artwork, uploaded or not, with uploadedImage false.
C13_LastResponseWins ==
    [][/\ Len(descReqs') < Len(descReqs)
           => \A i \in 1..Len(descReqs), text \in Prompts :
                  DescriptionSuccess(i, text) => designState'.prompt = text
       /\ Len(enhReqs') < Len(enhReqs)
           => \A i \in 1..Len(enhReqs), r \in AIResponses :
                  EnhanceReturn(i, r)
                      => designState'.prompt =
                             IF r # NetError /\ Trim(r) # <<>> THEN Trim(r)
                             ELSE enhReqs[i].prompt
       /\ Len(genReqs') < Len(genReqs)
           => \A i \in 1..Len(genReqs), img \in GeneratedImages :
                  GenerateSuccess(i, img)
                      => /\ designState'.generatedImageBase64 = img
                         /\ ~designState'.uploadedImage]_vars

\* A description arrived while an enhancement is in flight.
C13_DescriptionDuringEnhancement ==
    /\ lastOp.kind = "success"
    /\ Len(enhReqs) = 1
    /\ designState.prompt = <<>>
    /\ designState.generatedImageBase64 = Null
    /\ genReqs = <<>>
    /\ readers = <<>>

\* C15: a step that issues an image-generation request starts from a prompt
\* that is not empty and not white space only.
C15_NoRequestForBlankPrompt ==
    [][Len(genReqs') > Len(genReqs) => Trim(designState.prompt) # <<>>]_vars

C15_BlankPromptDisables ==
    /\ lastOp.kind = "edit"
    /\ designState.prompt = <<" ">>
    /\ ~designState.isGenerating
    /\ GenerateDisabled
    /\ genReqs = <<>>

\* C16: a busy flag is true exactly while a request of its kind is in flight,
\* and, the requests settling, each busy flag that is true becomes false.
C16_BusyFlagsReset ==
    /\ [](/\ isGeneratingDescription <=> descReqs # <<>>
          /\ isEnhancing <=> enhReqs # <<>>
          /\ designState.isGenerating <=> genReqs # <<>>)
    /\ (isGeneratingDescription ~> ~isGeneratingDescription)
    /\ (isEnhancing ~> ~isEnhancing)
    /\ (designState.isGenerating ~> ~designState.isGenerating)

\* An image request failed and left its flag false while the others are busy.
C16_SettledByFailure ==
    /\ lastOp.kind = "failure"
    /\ ~designState.isGenerating
    /\ genReqs = <<>>
    /\ isGeneratingDescription
    /\ isEnhancing
    /\ error \in {GenerateFallbackMessage, OpenAIKeyMissingMessage}

\* The answers of the text model that are a failure of the enhancement: the
\* call raises, or the text is empty or blank.
FailedEnhancements == {r \in AIResponses : r = NetError \/ Trim(r) = <<>>}

\* C18: when an enhancement fails (the service raises, the call raises, or
\* the answer is empty) the prompt becomes the text that was submitted and the
\* handler sets no error message.
C18_EnhanceFailureKeepsPrompt ==
    [][/\ \A i \in 1..Len(enhReqs), r \in FailedEnhancements :
             EnhanceReturn(i, r)
                 => /\ designState'.prompt = enhReqs[i].prompt
                    /\ error' \in {error, Null}
       /\ \A i \in 1..Len(enhReqs) :
             EnhanceThrow(i)
                 => /\ designState'.prompt = enhReqs[i].prompt
                    /\ error' \in {error, Null}]_vars

\* C20: selecting a file that is not an image changes no field of
\* designState, not the error, and starts no read; the read of an image file
\* ends with its data URL as artwork and uploadedImage true.
C20_NonImageIgnored ==
    [][/\ lastOp'.kind = "start"
           => \A ty \in FileTypes, d \in UploadedImages :
                  FileSelect(ty, d) /\ ty[1] # "image"
                      => UNCHANGED <<designState, error, readers>>
       /\ Len(readers') < Len(readers)
           => \A i \in 1..Len(readers) :
                  ReaderLoad(i)
                      => /\ designState'.generatedImageBase64 = readers[i].result
                         /\ designState'.uploadedImage]_vars

\* A file that is not an image was just selected: nothing is pending.
C20_NonImageSelected ==
    /\ lastOp.kind = "start"
    /\ descReqs = <<>> /\ enhReqs = <<>> /\ genReqs = <<>>
    /\ readers = <<>>
    /\ designState.generatedImageBase64 = Null

\* C14: at most one debounce timer is pending; every change of the query
\* leaves exactly the timer of the new query, with the whole delay to run; a
\* search is issued only by the expiry of a timer, when the query has been
\* unchanged for the whole delay, and for the query of that moment.
C14_DebouncedSearch ==
    /\ [](Cardinality(timers) <= 1)
    /\ [][designState'.prompt # designState.prompt
             => \E id \in 1..2 :
                    timers' = {[id |-> id, query |-> designState'.prompt,
                                remaining |-> DebounceMs]}]_vars
    /\ [][Len(searches') > Len(searches)
             => /\ \E t \in timers : TimerFire(t)
                /\ sinceChange = DebounceMs
                /\ searches'[Len(searches')] = designState.prompt]_vars

\* C17: a service function called without its credential makes no network
\* call: a search function returns the empty list, an AI function throws its
\* fixed message.
C17_MissingKeyNoNetwork ==
    (svc.fn # "none" /\ ~svc.key) =>
        /\ ~svc.result.fetched
        /\ svc.fn \in {"searchPixabayImages", "searchPexelsPhotos"}
              => svc.result = Return(Array(<<>>), FALSE)
        /\ svc.fn \in {"generateCreativePrompt", "enhancePrompt"}
              => svc.result = Throw(GeminiKeyMissingMessage, FALSE)
        /\ svc.fn = "generateTShirtDesign"
              => svc.result = Throw(OpenAIKeyMissingMessage, FALSE)

\* A search without key for a query and an answer that would have had photos.
C17_SearchWithoutKey ==
    /\ svc.fn = "searchPexelsPhotos"
    /\ ~svc.key
    /\ svc.query = <<"c", "a", "t">>
    /\ svc.response.fetch = "resolves"
    /\ svc.response.ok
    /\ svc.response.body.json = "object"
    /\ "photos" \in DOMAIN svc.response.body.fields
    /\ svc.response.body.fields.photos = <<"photo">>
    /\ svc.result.value = Array(<<>>)

\* C19: whatever the outcome of a search, the suggestion state holds a list.
C19_SuggestionsAreAList == images.type = "array"

\* C21: the artwork is null exactly when no design has been generated or
\* uploaded yet: it is null initially, it leaves null only by the success of
\* a generation or of an upload, and once not null it stays not null.
C21_ArtworkNullUntilFirst ==
    /\ Artwork = Null
    /\ [][/\ (Artwork = Null /\ designState'.generatedImageBase64 # Null)
              => (\/ \E i \in 1..Len(genReqs), img \in GeneratedImages :
                        GenerateSuccess(i, img)
                  \/ \E i \in 1..Len(readers) : ReaderLoad(i))
          /\ Artwork # Null => designState'.generatedImageBase64 # Null]_vars

\* The parts of the group that are not the print decal.
ShirtParts == {i \in 1..Len(shirtGroup) : shirtGroup[i].id # printMeshRef}

\* C22: the materials of the mounted group have the roughness and metalness
\* of the table for the current fabric: cotton (0.9, 0.0), performance poly
\* (0.5, 0.1), silk blend (0.3, 0.2), after any sequence of fabric changes.
C22_FabricTable ==
    printMeshRef # Null =>
        LET pair == IF designState.fabric = "Premium Cotton" THEN <<90, 0>>
                    ELSE IF designState.fabric = "Performance Poly" THEN <<50, 10>>
                    ELSE <<30, 20>>
        IN  \A i \in 1..Len(shirtGroup) :
                LET m == materials[shirtGroup[i].material]
                IN  <<m.roughness, m.metalness>> = pair

C22_SilkBuilt ==
    /\ printMeshRef # Null
    /\ designState.fabric = "Silk Blend"
    /\ materials[shirtGroup[1].material].roughness = 30
    /\ materials[shirtGroup[1].material].metalness = 20
    /\ PrintMat.roughness = 30

\* C23: in the mounted group the parts that are not the decal refer to one
\* material, whose color is the current shirt color, under every interleaving
\* of color changes and rebuilds; the decal material is given no color.
C23_SharedColoredMaterial ==
    printMeshRef # Null =>
        /\ \A i, j \in ShirtParts : shirtGroup[i].material = shirtGroup[j].material
        /\ \A i \in ShirtParts :
               materials[shirtGroup[i].material].color = designState.shirtColor
        /\ Cardinality(ShirtParts) = Len(shirtGroup) - 1
        /\ "color" \notin DOMAIN PrintMat

\* The color was changed and the group was rebuilt with long sleeves.
C23_RecoloredAndRebuilt ==
    /\ printMeshRef # Null
    /\ printMeshRef[2] = 2
    /\ designState.shirtColor = "#ffffff"
    /\ designState.sleeveLength = "Long Sleeve"
    /\ materials[shirtGroup[1].material].color = "#ffffff"

\* C24: a step that changes the shirt color keeps the group (its parts, their
\* geometries and materials, the decal surface), the decal material and the
\* loads pending, and sets the color of the material of the other parts; the
\* decal surface is replaced only by a step that changes the sleeve length or
\* the fabric.
C24_ColorChangeNoRebuild ==
    [][printMeshRef # Null =>
          /\ designState'.shirtColor # designState.shirtColor
                => /\ shirtGroup' = shirtGroup
                   /\ printMeshRef' = printMeshRef
                   /\ loads' = loads
                   /\ materials'[MaterialOf(printMeshRef)] = PrintMat
                   /\ \A i \in ShirtParts :
                          materials'[shirtGroup[i].material] =
                              [materials[shirtGroup[i].material]
                                  EXCEPT !.color = designState'.shirtColor]
          /\ printMeshRef' # printMeshRef
                => \/ designState'.sleeveLength # designState.sleeveLength
                   \/ designState'.fabric # designState.fabric]_vars

\* The color was changed while artwork is shown, on the first build.
C24_RecoloredWithArtwork ==
    /\ printMeshRef # Null
    /\ printMeshRef[2] = 1
    /\ designState.shirtColor = "#ffffff"
    /\ materials[shirtGroup[1].material].color = "#ffffff"
    /\ Artwork # Null
    /\ PrintMat.map = Artwork
    /\ designState.sleeveLength = InitialDesignState.sleeveLength
    /\ designState.fabric = InitialDesignState.fabric

\* C26: the completion of a load started for a decal surface that a rebuild
\* has replaced leaves the material of the current decal surface, its map and
\* its opacity, as it was.
C26_StaleLoadKeepsCurrentDecal ==
    [][\A l \in BagToSet(loads) :
          (l.mat # MaterialOf(printMeshRef) /\ TextureLoaded(l))
              => /\ printMeshRef' = printMeshRef
                 /\ materials'[MaterialOf(printMeshRef)] = PrintMat]_vars

\* The load of a replaced decal surface is pending while the current decal
\* surface shows another image, the artwork of the moment.
C26_StaleLoadPending ==
    /\ printMeshRef # Null
    /\ BagIn([url |-> "data:upload", mat |-> Discarded], loads)
    /\ Artwork = "data:image/png;base64"
    /\ PrintMat.map = Artwork
    /\ PrintMat.opacity = 100

\* C25: when the completion of a load leaves no load pending, the current
\* decal surface shows the artwork of the moment: its map is the image of the
\* artwork with opacity 1, or no map and opacity 0 when the artwork is null,
\* in whatever order the loads started by successive changes complete.
C25_SettledDecalShowsArtwork ==
    [][\A l \in BagToSet(loads) :
          (TextureLoaded(l) /\ loads' = EmptyBag)
              => /\ materials'[MaterialOf(printMeshRef')].map =
                        designState'.generatedImageBase64
                 /\ materials'[MaterialOf(printMeshRef')].opacity =
                        IF designState'.generatedImageBase64 = Null
                        THEN 0 ELSE 100]_vars

\* C27: uploadedImage is true only while artwork is bound, under every
\* interleaving of uploads, picks of suggestions, removals and completions
\* of image requests.
C27_UploadedImpliesArtwork ==
    designState.uploadedImage => designState.generatedImageBase64 # Null

\* A picked suggestion is bound as uploaded artwork while the read of a file
\* chosen over its preview is pending and an image request is in flight.
C27_UploadedDuringGeneration ==
    /\ designState.uploadedImage
    /\ designState.generatedImageBase64 = "data:pixabay"
    /\ Len(readers) = 1
    /\ readers[1].result = "data:upload"
    /\ Len(genReqs) = 1

\* C28: the failure of an image request changes, of designState, only
\* isGenerating, so the artwork bound and its uploadedImage flag stay as they
\* are at that moment; besides it only writes the error field.
C28_GenerateFailureKeepsArtwork ==
    [][(/\ Len(genReqs') < Len(genReqs)
        /\ \E i \in 1..Len(genReqs),
              m \in OpenAIFailureMessages \cup {OpenAIKeyMissingMessage} :
                 GenerateFailure(i, m))
          => /\ designState' = [designState EXCEPT !.isGenerating = FALSE]
             /\ UNCHANGED <<flags, descReqs, enhReqs, readers>>]_vars

\* An image request failed while uploaded artwork is bound.
C28_FailedWithArtworkBound ==
    /\ lastOp.kind = "failure"
    /\ genReqs = <<>>
    /\ error \in OpenAIFailureMessages
                    \cup {OpenAIKeyMissingMessage, GenerateFallbackMessage}
    /\ designState.generatedImageBase64 = "data:upload"
    /\ designState.uploadedImage
    /\ ~designState.isGenerating

\* C29: isLoading is true exactly while a search issued by the hook is in
\* flight, also when a search is issued before an earlier one has returned.
C29_LoadingWhileSearching == isLoading <=> searches # <<>>

\* C30: the handler sends exactly one response; it calls the upstream only
\* for a POST with a key configured and a non-empty prompt in the body;
\* otherwise it answers 200 to OPTIONS, 405 to another method, 500 without
\* key, 400 without prompt, tested in this order; an upstream error status is
\* passed through, an upstream success with image data gives 200, without
\* image data, or an exception raised, 500.
C30_HandlerResponses ==
    svc.fn = "handler" =>
        LET prompted == /\ svc.body # Undefined
                        /\ "prompt" \in DOMAIN svc.body.fields
                        /\ svc.body.fields.prompt # ""
            up == svc.upstream
            imaged == /\ up.fetch = "resolves"
                      /\ up.status = 200
                      /\ up.body.json = "object"
                      /\ "data" \in DOMAIN up.body.fields
                      /\ up.body.fields.data # <<>>
        IN  /\ Len(svc.result.responses) = 1
            /\ svc.result.fetched <=> (svc.method = "POST" /\ svc.key /\ prompted)
            /\ svc.result.responses[1].status =
                   IF svc.method = "OPTIONS" THEN 200
                   ELSE IF svc.method # "POST" THEN 405
                   ELSE IF ~svc.key THEN 500
                   ELSE IF ~prompted THEN 400
                   ELSE IF up.fetch = "rejects" THEN 500
                   ELSE IF up.status # 200 THEN up.status
                   ELSE IF imaged THEN 200 ELSE 500

====
